---- MODULE Spec2Model ----
(***************************************************************************)
(* Model of go.mway.dev/optional (src/optional.go, package at lines        *)
(* 120-411): the Optional[T] container, its constructors, its methods and  *)
(* the type-changing free functions Map, MapOr and MapOrElse.              *)
(*                                                                         *)
(* T is instantiated with the integers 0..MaxVal (zero value 0) and the    *)
(* Out parameter of the free functions with either T itself or BOOLEAN     *)
(* (zero value FALSE).  Callbacks are named closures; "nil" is the nil     *)
(* func value and "boom" is a closure that panics when it is called.       *)
(* A panic is recorded as the outcome of the call (as recovered by         *)
(* require.Panics in the tests) and the program goes on.                   *)
(***************************************************************************)
EXTENDS Integers, Sequences, FiniteSets

\* ---------------------------------------------------------------- bounds
MaxVal == 2
NumProcs == 2

\* ----------------------------------------------------------------- types
T == 0..MaxVal

\* zero value of a type parameter ("var zero T")
ZeroOf(typ) == IF typ = "bool" THEN FALSE ELSE 0

Nil == "nil"
Boom == "boom"

\* closures handed to the operations
Preds == {"pos", "even", Boom}
Mappers == {"dbl", Boom}
Convs == {"isEven", Boom}
Fallbacks == {"fbMax", "fbZero", Boom}
BoolFallbacks == {"fbTrue", Boom}
OptFallbacks == {"fbSome", "fbNone", Boom}

\* ------------------------------------------------------------ struct
\* type Optional[T any] struct { value T; isset bool }
Optional(value, isset) == [value |-> value, isset |-> isset]

Some(value) == Optional(value, TRUE)

\* Optional[T]{}: every field is the zero value of its type
None(typ) == Optional(ZeroOf(typ), FALSE)

\* a *T is nil (no referent) or points at a T
NilPtr == <<>>

Pointers == {NilPtr} \cup {<<v>> : v \in T}

FromPointer(ptr) ==
    IF ptr = NilPtr THEN None("int") ELSE Some(ptr[1])

\* mutant: the zero check is left out
FromValue_NoZeroCheck(value) == Some(value)

FromValue(value) ==
    IF value = ZeroOf("int") THEN None("int") ELSE Some(value)

\* ------------------------------------------------------------ results
\* what a call hands back to its caller
RetOpt(opt) == [kind |-> "opt", opt |-> opt]
RetOptOut(opt) == [kind |-> "optOut", optOut |-> opt]
RetVal(v) == [kind |-> "val", val |-> v]
RetBool(b) == [kind |-> "bool", b |-> b]
RetPair(v, ok) == [kind |-> "pair", val |-> v, ok |-> ok]
\* a panic unwinds the call: nothing is returned
Panic(err, method, what) ==
    [kind |-> "panic", err |-> err, method |-> method, what |-> what]

panicNilValue(method, value) == Panic("nil", method, value)

panicOptionalNilValue(method, value) ==
    panicNilValue(<<"Optional">> \o method, value)

\* a panic raised inside a caller-supplied closure
CallbackPanic == Panic("callback", <<"closure">>, "closure")

\* one invocation of a closure, with the arguments it was given
Call(cb, args) == [cb |-> cb, args |-> args]

\* outcome of a call: the receiver afterwards, the result, the closures run
Outcome(recv, ret, calls) == [recv |-> recv, ret |-> ret, calls |-> calls]

\* ------------------------------------------------------------ closures
ApplyPred(pred, v) ==
    IF pred = "pos" THEN v > 0 ELSE v % 2 = 0

ApplyMapper(fn, v) == (v * 2) % (MaxVal + 1)

ApplyConv(fn, v) == v % 2 = 0

ApplyFallback(fb) == IF fb = "fbMax" THEN MaxVal ELSE 0

ApplyBoolFallback(fb) == TRUE

ApplyOptFallback(fb) == IF fb = "fbSome" THEN Some(1) ELSE None("int")

\* ------------------------------------------------------------- methods
\* Every method takes the receiver by pointer; recv is the receiver after
\* the call.

\* mutant: a rejected value is dropped by clearing the flag of a copy only
Filter_KeepsPayload(recv, pred) ==
    IF ~recv.isset THEN Outcome(recv, RetOpt(None("int")), <<>>)
    ELSE IF pred = Nil THEN
        Outcome(recv, panicOptionalNilValue(<<"Filter">>, "predicate func"), <<>>)
    ELSE IF pred = Boom THEN
        Outcome(recv, CallbackPanic, <<Call(pred, <<recv.value>>)>>)
    ELSE IF ApplyPred(pred, recv.value) THEN
        Outcome(recv, RetOpt(recv), <<Call(pred, <<recv.value>>)>>)
    ELSE Outcome(recv, RetOpt(Optional(recv.value, FALSE)),
                 <<Call(pred, <<recv.value>>)>>)

\* mutant: the predicate's verdict is read the wrong way round
Filter_Negated(recv, pred) ==
    IF ~recv.isset THEN Outcome(recv, RetOpt(None("int")), <<>>)
    ELSE IF pred = Nil THEN
        Outcome(recv, panicOptionalNilValue(<<"Filter">>, "predicate func"), <<>>)
    ELSE IF pred = Boom THEN
        Outcome(recv, CallbackPanic, <<Call(pred, <<recv.value>>)>>)
    ELSE IF ~ApplyPred(pred, recv.value) THEN
        Outcome(recv, RetOpt(recv), <<Call(pred, <<recv.value>>)>>)
    ELSE Outcome(recv, RetOpt(None("int")), <<Call(pred, <<recv.value>>)>>)

Filter(recv, pred) ==
    IF ~recv.isset THEN Outcome(recv, RetOpt(None("int")), <<>>)
    ELSE IF pred = Nil THEN
        Outcome(recv, panicOptionalNilValue(<<"Filter">>, "predicate func"), <<>>)
    ELSE IF pred = Boom THEN
        Outcome(recv, CallbackPanic, <<Call(pred, <<recv.value>>)>>)
    ELSE IF ApplyPred(pred, recv.value) THEN
        Outcome(recv, RetOpt(recv), <<Call(pred, <<recv.value>>)>>)
    ELSE Outcome(recv, RetOpt(None("int")), <<Call(pred, <<recv.value>>)>>)

Get(recv) == Outcome(recv, RetPair(recv.value, recv.isset), <<>>)

IsSome(recv) == Outcome(recv, RetBool(recv.isset), <<>>)

\* mutant: the predicate is validated before the flag is looked at
IsSomeAnd_ChecksNilFirst(recv, pred) ==
    IF pred = Nil THEN
        Outcome(recv, panicOptionalNilValue(<<"IsSomeAnd">>, "predicate func"), <<>>)
    ELSE IF ~recv.isset THEN Outcome(recv, RetBool(FALSE), <<>>)
    ELSE IF pred = Boom THEN
        Outcome(recv, CallbackPanic, <<Call(pred, <<recv.value>>)>>)
    ELSE Outcome(recv, RetBool(ApplyPred(pred, recv.value)),
                 <<Call(pred, <<recv.value>>)>>)

IsSomeAnd(recv, pred) ==
    IF ~recv.isset THEN Outcome(recv, RetBool(FALSE), <<>>)
    ELSE IF pred = Nil THEN
        Outcome(recv, panicOptionalNilValue(<<"IsSomeAnd">>, "predicate func"), <<>>)
    ELSE IF pred = Boom THEN
        Outcome(recv, CallbackPanic, <<Call(pred, <<recv.value>>)>>)
    ELSE Outcome(recv, RetBool(ApplyPred(pred, recv.value)),
                 <<Call(pred, <<recv.value>>)>>)

IsNone(recv) == Outcome(recv, RetBool(~recv.isset), <<>>)

\* mutant: the absent case answers as IsSomeAnd does
IsNoneOr_AbsentIsFalse(recv, pred) ==
    IF ~recv.isset THEN Outcome(recv, RetBool(FALSE), <<>>)
    ELSE IF pred = Nil THEN
        Outcome(recv, panicOptionalNilValue(<<"IsNoneOr">>, "predicate func"), <<>>)
    ELSE IF pred = Boom THEN
        Outcome(recv, CallbackPanic, <<Call(pred, <<recv.value>>)>>)
    ELSE Outcome(recv, RetBool(ApplyPred(pred, recv.value)),
                 <<Call(pred, <<recv.value>>)>>)

IsNoneOr(recv, pred) ==
    IF ~recv.isset THEN Outcome(recv, RetBool(TRUE), <<>>)
    ELSE IF pred = Nil THEN
        Outcome(recv, panicOptionalNilValue(<<"IsNoneOr">>, "predicate func"), <<>>)
    ELSE IF pred = Boom THEN
        Outcome(recv, CallbackPanic, <<Call(pred, <<recv.value>>)>>)
    ELSE Outcome(recv, RetBool(ApplyPred(pred, recv.value)),
                 <<Call(pred, <<recv.value>>)>>)

Optional_Map(recv, fn) ==
    IF recv.isset THEN
        IF fn = Nil THEN
            Outcome(recv, panicOptionalNilValue(<<"Map">>, "mapper func"), <<>>)
        ELSE IF fn = Boom THEN
            Outcome(recv, CallbackPanic, <<Call(fn, <<recv.value>>)>>)
        ELSE Outcome(recv, RetOpt(Some(ApplyMapper(fn, recv.value))),
                     <<Call(fn, <<recv.value>>)>>)
    ELSE Outcome(recv, RetOpt(None("int")), <<>>)

Optional_MapOr(recv, fallback, fn) ==
    IF recv.isset THEN
        IF fn = Nil THEN
            Outcome(recv, panicOptionalNilValue(<<"MapOr">>, "mapper func"), <<>>)
        ELSE IF fn = Boom THEN
            Outcome(recv, CallbackPanic, <<Call(fn, <<recv.value>>)>>)
        ELSE Outcome(recv, RetVal(ApplyMapper(fn, recv.value)),
                     <<Call(fn, <<recv.value>>)>>)
    ELSE Outcome(recv, RetVal(fallback), <<>>)

Optional_MapOrElse(recv, fallback, fn) ==
    IF recv.isset THEN
        IF fn = Nil THEN
            Outcome(recv, panicOptionalNilValue(<<"MapOrElse">>, "mapper func"), <<>>)
        ELSE IF fn = Boom THEN
            Outcome(recv, CallbackPanic, <<Call(fn, <<recv.value>>)>>)
        ELSE Outcome(recv, RetVal(ApplyMapper(fn, recv.value)),
                     <<Call(fn, <<recv.value>>)>>)
    ELSE
        IF fallback = Nil THEN
            Outcome(recv, panicOptionalNilValue(<<"MapOrElse">>, "fallback func"), <<>>)
        ELSE IF fallback = Boom THEN
            Outcome(recv, CallbackPanic, <<Call(fallback, <<>>)>>)
        ELSE Outcome(recv, RetVal(ApplyFallback(fallback)),
                     <<Call(fallback, <<>>)>>)

\* mutant: an absent receiver is filled in with the alternative
Or_StoresOther(recv, other) ==
    IF recv.isset THEN Outcome(recv, RetOpt(recv), <<>>)
    ELSE Outcome(other, RetOpt(other), <<>>)

\* mutant: a present alternative wins over the receiver
Or_PrefersOther(recv, other) ==
    IF recv.isset /\ ~other.isset THEN Outcome(recv, RetOpt(recv), <<>>)
    ELSE Outcome(recv, RetOpt(other), <<>>)

Or(recv, other) ==
    IF recv.isset THEN Outcome(recv, RetOpt(recv), <<>>)
    ELSE Outcome(recv, RetOpt(other), <<>>)

\* mutant: the nil check falls through to the return that follows it
OrElse_ReturnsNoneOnNil(recv, fallback) ==
    IF recv.isset THEN Outcome(recv, RetOpt(recv), <<>>)
    ELSE
        IF fallback = Nil THEN Outcome(recv, RetOpt(None("int")), <<>>)
        ELSE IF fallback = Boom THEN
            Outcome(recv, CallbackPanic, <<Call(fallback, <<>>)>>)
        ELSE Outcome(recv, RetOpt(ApplyOptFallback(fallback)),
                     <<Call(fallback, <<>>)>>)

OrElse(recv, fallback) ==
    IF recv.isset THEN Outcome(recv, RetOpt(recv), <<>>)
    ELSE
        IF fallback = Nil THEN
            Outcome(recv, panicOptionalNilValue(<<"OrElse">>, "fallback func"), <<>>)
        ELSE IF fallback = Boom THEN
            Outcome(recv, CallbackPanic, <<Call(fallback, <<>>)>>)
        ELSE Outcome(recv, RetOpt(ApplyOptFallback(fallback)),
                     <<Call(fallback, <<>>)>>)

\* mutant: the previous payload is read after the new one is stored
Swap_ReadsAfterStore(recv, value) ==
    LET isset == recv.isset
        stored == [recv EXCEPT !.value = value, !.isset = TRUE]
        prev == stored.value
    IN  IF isset THEN Outcome(stored, RetOpt(Some(prev)), <<>>)
        ELSE Outcome(stored, RetOpt(None("int")), <<>>)

Swap(recv, value) ==
    LET isset == recv.isset
        prev == recv.value
        stored == [recv EXCEPT !.value = value, !.isset = TRUE]
    IN  IF isset THEN Outcome(stored, RetOpt(Some(prev)), <<>>)
        ELSE Outcome(stored, RetOpt(None("int")), <<>>)

\* mutant: the payload is handed out without looking at the flag
Value_Unchecked(recv) == Outcome(recv, RetVal(recv.value), <<>>)

Value(recv) ==
    IF ~recv.isset THEN
        Outcome(recv, Panic("absent", <<"Optional", "Value">>, "no held value"), <<>>)
    ELSE Outcome(recv, RetVal(recv.value), <<>>)

\* mutant: a zero payload is taken for "no value"
ValueOr_ZeroIsAbsent(recv, fallback) ==
    IF recv.isset /\ recv.value # ZeroOf("int") THEN
        Outcome(recv, RetVal(recv.value), <<>>)
    ELSE Outcome(recv, RetVal(fallback), <<>>)

ValueOr(recv, fallback) ==
    IF recv.isset THEN Outcome(recv, RetVal(recv.value), <<>>)
    ELSE Outcome(recv, RetVal(fallback), <<>>)

ValueOrElse(recv, fallback) ==
    IF recv.isset THEN Outcome(recv, RetVal(recv.value), <<>>)
    ELSE
        IF fallback = Nil THEN
            Outcome(recv, panicOptionalNilValue(<<"ValueOrElse">>, "fallback func"), <<>>)
        ELSE IF fallback = Boom THEN
            Outcome(recv, CallbackPanic, <<Call(fallback, <<>>)>>)
        ELSE Outcome(recv, RetVal(ApplyFallback(fallback)),
                     <<Call(fallback, <<>>)>>)

\* ------------------------------------------------------ free functions
\* Map, MapOr and MapOrElse take the Optional[In] by value: arg is the
\* callee's copy.  out names the Out type parameter: "int" (In = Out) or
\* "bool".

Transforms(out) == IF out = "bool" THEN Convs ELSE Mappers

ApplyTransform(out, fn, v) ==
    IF out = "bool" THEN ApplyConv(fn, v) ELSE ApplyMapper(fn, v)

OutFallbacks(out) == IF out = "bool" THEN BoolFallbacks ELSE Fallbacks

ApplyOutFallback(out, fb) ==
    IF out = "bool" THEN ApplyBoolFallback(fb) ELSE ApplyFallback(fb)

OutValues(out) == IF out = "bool" THEN BOOLEAN ELSE T

\* a value of type Out, resp. Optional[Out], handed back
RetOut(out, v) == IF out = "bool" THEN RetBool(v) ELSE RetVal(v)

RetOptionalOut(out, opt) == IF out = "bool" THEN RetOptOut(opt) ELSE RetOpt(opt)

Map(out, arg, fn) ==
    IF arg.isset THEN
        IF fn = Nil THEN
            Outcome(arg, panicNilValue(<<"Map">>, "mapper func"), <<>>)
        ELSE IF fn = Boom THEN
            Outcome(arg, CallbackPanic, <<Call(fn, <<arg.value>>)>>)
        ELSE Outcome(arg, RetOptionalOut(out, Some(ApplyTransform(out, fn, arg.value))),
                     <<Call(fn, <<arg.value>>)>>)
    ELSE Outcome(arg, RetOptionalOut(out, None(out)), <<>>)

MapOr(out, arg, fallback, fn) ==
    IF arg.isset THEN
        IF fn = Nil THEN
            Outcome(arg, panicNilValue(<<"MapOr">>, "mapper func"), <<>>)
        ELSE IF fn = Boom THEN
            Outcome(arg, CallbackPanic, <<Call(fn, <<arg.value>>)>>)
        ELSE Outcome(arg, RetOut(out, ApplyTransform(out, fn, arg.value)),
                     <<Call(fn, <<arg.value>>)>>)
    ELSE Outcome(arg, RetOut(out, fallback), <<>>)

\* mutant: the fallback is computed up front, whichever branch is taken
MapOrElse_EagerFallback(out, arg, fallback, fn) ==
    IF fallback = Nil THEN
        Outcome(arg, panicNilValue(<<"MapOrElse">>, "fallback func"), <<>>)
    ELSE IF fallback = Boom THEN
        Outcome(arg, CallbackPanic, <<Call(fallback, <<>>)>>)
    ELSE IF arg.isset THEN
        IF fn = Nil THEN
            Outcome(arg, panicNilValue(<<"MapOrElse">>, "mapper func"),
                    <<Call(fallback, <<>>)>>)
        ELSE IF fn = Boom THEN
            Outcome(arg, CallbackPanic,
                    <<Call(fallback, <<>>), Call(fn, <<arg.value>>)>>)
        ELSE Outcome(arg, RetOut(out, ApplyTransform(out, fn, arg.value)),
                     <<Call(fallback, <<>>), Call(fn, <<arg.value>>)>>)
    ELSE Outcome(arg, RetOut(out, ApplyOutFallback(out, fallback)),
                 <<Call(fallback, <<>>)>>)

MapOrElse(out, arg, fallback, fn) ==
    IF arg.isset THEN
        IF fn = Nil THEN
            Outcome(arg, panicNilValue(<<"MapOrElse">>, "mapper func"), <<>>)
        ELSE IF fn = Boom THEN
            Outcome(arg, CallbackPanic, <<Call(fn, <<arg.value>>)>>)
        ELSE Outcome(arg, RetOut(out, ApplyTransform(out, fn, arg.value)),
                     <<Call(fn, <<arg.value>>)>>)
    ELSE
        IF fallback = Nil THEN
            Outcome(arg, panicNilValue(<<"MapOrElse">>, "fallback func"), <<>>)
        ELSE IF fallback = Boom THEN
            Outcome(arg, CallbackPanic, <<Call(fallback, <<>>)>>)
        ELSE Outcome(arg, RetOut(out, ApplyOutFallback(out, fallback)),
                     <<Call(fallback, <<>>)>>)

\* --------------------------------------------------------------- state
VARIABLES
    o,      \* the Optional[T] variable the methods are called on
    ret,    \* result of the last call
    calls,  \* closures invoked by the last call, in order
    last,   \* the last call: operation, receiver before it, arguments
    g,      \* goroutines that call Get or Swap on &o with no synchronisation
    o0      \* what o held before any goroutine ran

vars == <<o, ret, calls, last, g, o0>>

Procs == 1..NumProcs

\* frame of a goroutine: the call it makes, the loads and stores it still
\* has to do, its locals, and what it returned; start is what o held when
\* the call began, kept for as long as no Swap of another goroutine has
\* overlapped the call (overlap)
Idle ==
    [pc |-> "idle", op |-> "none", value |-> ZeroOf("int"), todo |-> {},
     isset |-> FALSE, prev |-> ZeroOf("int"),
     start |-> None("int"), overlap |-> FALSE, res |-> [kind |-> "none"]]

\* var opt optional.Optional[T]
Init ==
    /\ o = Optional(ZeroOf("int"), FALSE)
    /\ ret = [kind |-> "init"]
    /\ calls = <<>>
    /\ last = [op |-> "init"]
    /\ g = [p \in Procs |-> Idle]
    /\ o0 = o

\* ------------------------------------------------------------- actions
\* a method call on the variable o: the receiver is &o
Invoke(out, call) ==
    /\ o' = out.recv
    /\ ret' = out.ret
    /\ calls' = out.calls
    /\ last' = call
    /\ UNCHANGED <<g, o0>>

\* a call that takes o by value, or no Optional at all
InvokeByValue(out, call) ==
    /\ o' = o
    /\ ret' = out.ret
    /\ calls' = out.calls
    /\ last' = call
    /\ UNCHANGED <<g, o0>>

CallSome ==
    \E v \in T :
        InvokeByValue(Outcome(Some(v), RetOpt(Some(v)), <<>>),
                      [op |-> "Some", value |-> v])

CallNone ==
    InvokeByValue(Outcome(None("int"), RetOpt(None("int")), <<>>),
                  [op |-> "None"])

CallFromPointer ==
    \E ptr \in Pointers :
        InvokeByValue(Outcome(FromPointer(ptr), RetOpt(FromPointer(ptr)), <<>>),
                      [op |-> "FromPointer", ptr |-> ptr])

CallFromValue ==
    \E v \in T :
        InvokeByValue(Outcome(FromValue(v), RetOpt(FromValue(v)), <<>>),
                      [op |-> "FromValue", value |-> v])

\* opt = have: an Optional[T] that a call returned is stored in a variable
Assign ==
    /\ ret.kind = "opt"
    /\ o' = ret.opt
    /\ calls' = <<>>
    /\ last' = [op |-> "Assign", pre |-> o]
    /\ UNCHANGED <<ret, g, o0>>

CallFilter ==
    \E pred \in Preds \cup {Nil} :
        Invoke(Filter(o, pred),
               [op |-> "Filter", pre |-> o, pred |-> pred])

CallGet ==
    Invoke(Get(o), [op |-> "Get", pre |-> o])

CallIsSome ==
    Invoke(IsSome(o), [op |-> "IsSome", pre |-> o])

CallIsSomeAnd ==
    \E pred \in Preds \cup {Nil} :
        Invoke(IsSomeAnd(o, pred),
               [op |-> "IsSomeAnd", pre |-> o, pred |-> pred])

CallIsNone ==
    Invoke(IsNone(o), [op |-> "IsNone", pre |-> o])

CallIsNoneOr ==
    \E pred \in Preds \cup {Nil} :
        Invoke(IsNoneOr(o, pred),
               [op |-> "IsNoneOr", pre |-> o, pred |-> pred])

CallOptionalMap ==
    \E fn \in Mappers \cup {Nil} :
        Invoke(Optional_Map(o, fn),
               [op |-> "Optional.Map", pre |-> o, fn |-> fn])

CallOptionalMapOr ==
    \E fallback \in T, fn \in Mappers \cup {Nil} :
        Invoke(Optional_MapOr(o, fallback, fn),
               [op |-> "Optional.MapOr", pre |-> o,
                fallback |-> fallback, fn |-> fn])

CallOptionalMapOrElse ==
    \E fallback \in Fallbacks \cup {Nil}, fn \in Mappers \cup {Nil} :
        Invoke(Optional_MapOrElse(o, fallback, fn),
               [op |-> "Optional.MapOrElse", pre |-> o,
                fallback |-> fallback, fn |-> fn])

\* the Optional[T] values at hand: the variable itself and, when the last
\* call returned one, its result
Operands == {o} \cup (IF ret.kind = "opt" THEN {ret.opt} ELSE {})

CallOr ==
    \E other \in Operands :
        Invoke(Or(o, other), [op |-> "Or", pre |-> o, other |-> other])

CallOrElse ==
    \E fallback \in OptFallbacks \cup {Nil} :
        Invoke(OrElse(o, fallback),
               [op |-> "OrElse", pre |-> o, fallback |-> fallback])

CallSwap ==
    \E value \in T :
        Invoke(Swap(o, value),
               [op |-> "Swap", pre |-> o, value |-> value])

CallValue ==
    Invoke(Value(o), [op |-> "Value", pre |-> o])

CallValueOr ==
    \E fallback \in T :
        Invoke(ValueOr(o, fallback),
               [op |-> "ValueOr", pre |-> o, fallback |-> fallback])

CallValueOrElse ==
    \E fallback \in Fallbacks \cup {Nil} :
        Invoke(ValueOrElse(o, fallback),
               [op |-> "ValueOrElse", pre |-> o, fallback |-> fallback])

CallMap ==
    \E out \in {"int", "bool"} :
        \E fn \in Transforms(out) \cup {Nil} :
            InvokeByValue(Map(out, o, fn),
                          [op |-> "Map", pre |-> o, out |-> out,
                           fn |-> fn])

CallMapOr ==
    \E out \in {"int", "bool"} :
        \E fallback \in OutValues(out), fn \in Transforms(out) \cup {Nil} :
            InvokeByValue(MapOr(out, o, fallback, fn),
                          [op |-> "MapOr", pre |-> o, out |-> out,
                           fallback |-> fallback, fn |-> fn])

CallMapOrElse ==
    \E out \in {"int", "bool"} :
        \E fallback \in OutFallbacks(out) \cup {Nil},
           fn \in Transforms(out) \cup {Nil} :
            InvokeByValue(MapOrElse(out, o, fallback, fn),
                          [op |-> "MapOrElse", pre |-> o, out |-> out,
                           fallback |-> fallback, fn |-> fn])

Next ==
    \/ CallSome
    \/ CallNone
    \/ CallFromPointer
    \/ CallFromValue
    \/ Assign
    \/ CallFilter
    \/ CallGet
    \/ CallIsSome
    \/ CallIsSomeAnd
    \/ CallIsNone
    \/ CallIsNoneOr
    \/ CallOptionalMap
    \/ CallOptionalMapOr
    \/ CallOptionalMapOrElse
    \/ CallOr
    \/ CallOrElse
    \/ CallSwap
    \/ CallValue
    \/ CallValueOr
    \/ CallValueOrElse
    \/ CallMap
    \/ CallMapOr
    \/ CallMapOrElse

Spec == Init /\ [][Next]_vars

\* ------------------------------------------------- unsynchronised calls
\* Swap and Get contain no lock and no atomic operation: when goroutines
\* call them on one Optional the loads and stores of the calls interleave.
\* The calls race, so the two loads of a call may be satisfied in either
\* order and the two stores of Swap may become visible in either order.

Loads == {"ld_isset", "ld_value"}

Stores == {"st_value", "st_isset"}

\* every state an Optional[T] variable can be in
Optionals == {None("int")} \cup {Some(v) : v \in T}

\* isset = o.isset / prev = o.value  (Swap), o.value / o.isset (Get)
LoadField(f, obj, m) ==
    IF m = "ld_isset" THEN [f EXCEPT !.isset = obj.isset, !.todo = @ \ {m}]
    ELSE [f EXCEPT !.prev = obj.value, !.todo = @ \ {m}]

\* mutant: the flag is left as it was
StoreField_FlagNotSet(obj, f, m) ==
    IF m = "st_value" THEN [obj EXCEPT !.value = f.value] ELSE obj

\* o.value = value / o.isset = true
StoreField(obj, f, m) ==
    IF m = "st_value" THEN [obj EXCEPT !.value = f.value]
    ELSE [obj EXCEPT !.isset = TRUE]

\* what the call returns from its locals
ReturnOf(f) ==
    IF f.op = "Swap" THEN
        IF f.isset THEN RetOpt(Some(f.prev)) ELSE RetOpt(None("int"))
    ELSE RetPair(f.prev, f.isset)

\* another goroutine is inside Swap
SwapRunning(p) ==
    \E q \in Procs \ {p} : g[q].pc = "run" /\ g[q].op = "Swap"

\* the state a call of goroutine p begins in
StartOf(p) == IF SwapRunning(p) THEN None("int") ELSE o

InitConc ==
    /\ o \in Optionals
    /\ o0 = o
    /\ ret = [kind |-> "init"]
    /\ calls = <<>>
    /\ last = [op |-> "init"]
    /\ g = [p \in Procs |-> Idle]

StartGet(p) ==
    /\ g[p].pc = "idle"
    /\ g' = [g EXCEPT ![p] = [@ EXCEPT !.pc = "run", !.op = "Get",
                                       !.todo = Loads,
                                       !.start = StartOf(p),
                                       !.overlap = SwapRunning(p)]]
    /\ UNCHANGED <<o, ret, calls, last, o0>>

StartSwap(p) ==
    \E value \in T :
        /\ g[p].pc = "idle"
        /\ g' = [q \in Procs |->
                    IF q = p THEN
                        [g[q] EXCEPT !.pc = "run", !.op = "Swap",
                                     !.value = value,
                                     !.todo = Loads \cup Stores,
                                     !.start = StartOf(p),
                                     !.overlap = SwapRunning(p)]
                    ELSE IF g[q].pc = "run" THEN
                        [g[q] EXCEPT !.overlap = TRUE, !.start = None("int")]
                    ELSE g[q]]
        /\ UNCHANGED <<o, ret, calls, last, o0>>

Load(p) ==
    \E m \in g[p].todo \cap Loads :
        /\ g[p].pc = "run"
        /\ g' = [g EXCEPT ![p] = LoadField(@, o, m)]
        /\ UNCHANGED <<o, ret, calls, last, o0>>

Store(p) ==
    \E m \in g[p].todo \cap Stores :
        /\ g[p].pc = "run"
        /\ g[p].todo \cap Loads = {}
        /\ o' = StoreField(o, g[p], m)
        /\ g' = [g EXCEPT ![p] = [@ EXCEPT !.todo = @ \ {m}]]
        /\ UNCHANGED <<ret, calls, last, o0>>

Return(p) ==
    /\ g[p].pc = "run"
    /\ g[p].todo = {}
    /\ g' = [g EXCEPT ![p] = [@ EXCEPT !.pc = "done", !.res = ReturnOf(g[p])]]
    /\ UNCHANGED <<o, ret, calls, last, o0>>

NextConc ==
    \E p \in Procs :
        \/ StartGet(p)
        \/ StartSwap(p)
        \/ Load(p)
        \/ Store(p)
        \/ Return(p)

SpecConc == InitConc /\ [][NextConc]_vars

\* ---------------------------------------------------------- properties

\* C1: an absent Optional always carries the zero value of its type: this
\* holds of every variable, of every Optional a call returns, and of the
\* pair Get returns (flag false implies payload zero).
C1_AbsentHoldsZero ==
    /\ ~o.isset => o.value = ZeroOf("int")
    /\ ret.kind = "opt" => (~ret.opt.isset => ret.opt.value = ZeroOf("int"))
    /\ ret.kind = "optOut" =>
           (~ret.optOut.isset => ret.optOut.value = ZeroOf("bool"))
    /\ ret.kind = "pair" => (~ret.ok => ret.val = ZeroOf("int"))

\* Filter rejected a non-zero payload: the Optional it returned is absent
\* and holds zero
C1_Witness ==
    /\ last.op = "Filter"
    /\ last.pre.isset
    /\ last.pre.value # ZeroOf("int")
    /\ ret.kind = "opt"
    /\ ~ret.opt.isset
    /\ ret.opt.value = ZeroOf("int")

\* C2 (state part): after Swap(x) the receiver is Some(x) and the result is
\* the receiver's state from before the call.
C2_SwapState ==
    last.op = "Swap" =>
        /\ o = Some(last.value)
        /\ ret = RetOpt(IF last.pre.isset THEN Some(last.pre.value)
                        ELSE None("int"))

\* C2 (sequence part): a Swap that directly follows Swap(x) returns Some(x).
C2_SwapChain ==
    (last.op = "Swap" /\ last'.op = "Swap")
        => ret' = RetOpt(Some(last.value))

\* C2: Swap(x) leaves the receiver Some(x) and returns the previous state;
\* in a run of Swaps the k-th returns Some of the (k-1)-th argument.
C2_Swap == []C2_SwapState /\ [][C2_SwapChain]_vars

\* Swap on an absent and on a present receiver
C2_Witness ==
    /\ last.op = "Swap"
    /\ last.pre.isset
    /\ last.pre.value # last.value
    /\ ret = RetOpt(Some(last.pre.value))
    /\ o = Some(last.value)

\* operations that must leave every variable as it was
ReadOnlyOps ==
    {"Some", "None", "FromPointer", "FromValue", "Filter", "Get", "IsSome",
     "IsSomeAnd", "IsNone", "IsNoneOr", "Optional.Map", "Optional.MapOr",
     "Optional.MapOrElse", "Or", "OrElse", "Value", "ValueOr", "ValueOrElse",
     "Map", "MapOr", "MapOrElse"}

\* C3 (frame part): a step of any operation other than Swap (and other than
\* a plain assignment to the variable) does not change the variable, whether
\* the operation returns or panics.
C3_Frame == last'.op \in ReadOnlyOps => o' = o

\* C3 (repetition part): Get, IsSome or IsNone called again returns what it
\* returned the time before.
C3_Repeat ==
    (/\ last.op \in {"Get", "IsSome", "IsNone"}
     /\ last'.op = last.op)
    => ret' = ret

\* C3: only Swap changes the receiver; the observers are repeatable.
C3_OnlySwapMutates == [][C3_Frame /\ C3_Repeat]_vars

\* a call on a present receiver panicked and the receiver is as before
C3_Witness ==
    /\ last.op = "Filter"
    /\ last.pre.isset
    /\ last.pre.value # ZeroOf("int")
    /\ ret.kind = "panic"
    /\ o = last.pre

\* which closure parameters an operation has
PredOps == {"Filter", "IsSomeAnd", "IsNoneOr"}

FnOps ==
    {"Optional.Map", "Optional.MapOr", "Optional.MapOrElse", "Map", "MapOr",
     "MapOrElse"}

FallbackOps == {"Optional.MapOrElse", "MapOrElse", "OrElse", "ValueOrElse"}

\* the result type of the last call to Map, MapOr or MapOrElse
OutOf == IF last.op \in {"Map", "MapOr", "MapOrElse"} THEN last.out ELSE "int"

\* what a transform or fallback that was run gave back
FnResult == ApplyTransform(OutOf, last.fn, last.pre.value)

FallbackResult == ApplyOutFallback(OutOf, last.fallback)

\* C4: a nil closure on the branch that is not taken is tolerated: the call
\* returns what the branch taken returns and never raises the nil-callback
\* panic.
C4_UnusedNilTolerated ==
    /\ (last.op = "Filter" /\ ~last.pre.isset /\ last.pred = Nil)
           => ret = RetOpt(None("int"))
    /\ (last.op = "IsSomeAnd" /\ ~last.pre.isset /\ last.pred = Nil)
           => ret = RetBool(FALSE)
    /\ (last.op = "IsNoneOr" /\ ~last.pre.isset /\ last.pred = Nil)
           => ret = RetBool(TRUE)
    /\ (last.op \in {"Optional.Map", "Map"} /\ ~last.pre.isset /\ last.fn = Nil)
           => ret = RetOptionalOut(OutOf, None(OutOf))
    /\ (last.op \in {"Optional.MapOr", "MapOr"} /\ ~last.pre.isset
            /\ last.fn = Nil)
           => ret = RetOut(OutOf, last.fallback)
    /\ (last.op \in {"Optional.MapOrElse", "MapOrElse"} /\ ~last.pre.isset
            /\ last.fn = Nil /\ last.fallback # Nil)
           => /\ calls = <<Call(last.fallback, <<>>)>>
              /\ IF last.fallback = Boom THEN ret = CallbackPanic
                 ELSE ret = RetOut(OutOf, FallbackResult)
    /\ (last.op = "OrElse" /\ last.pre.isset /\ last.fallback = Nil)
           => ret = RetOpt(last.pre)
    /\ (last.op = "ValueOrElse" /\ last.pre.isset /\ last.fallback = Nil)
           => ret = RetVal(last.pre.value)
    /\ (last.op \in {"Optional.MapOrElse", "MapOrElse"} /\ last.pre.isset
            /\ last.fallback = Nil /\ last.fn # Nil)
           => /\ calls = <<Call(last.fn, <<last.pre.value>>)>>
              /\ IF last.fn = Boom THEN ret = CallbackPanic
                 ELSE ret = RetOut(OutOf, FnResult)

\* IsSomeAnd(nil) on an absent receiver answered false
C4_Witness ==
    /\ last.op = "IsSomeAnd"
    /\ ~last.pre.isset
    /\ last.pred = Nil
    /\ ret = RetBool(FALSE)

\* the last call was given nil for the closure its branch has to run
NilOnTakenBranch ==
    \/ last.op \in PredOps /\ last.pre.isset /\ last.pred = Nil
    \/ last.op \in FnOps /\ last.pre.isset /\ last.fn = Nil
    \/ last.op \in FallbackOps /\ ~last.pre.isset /\ last.fallback = Nil

\* C5: a nil closure on the branch that needs it raises the nil-callback
\* panic: nothing is returned, no closure has run, the receiver is as before.
C5_NeededNilPanics ==
    NilOnTakenBranch =>
        /\ ret.kind = "panic"
        /\ ret.err = "nil"
        /\ calls = <<>>
        /\ o = last.pre

\* MapOrElse(nil, fn) on an absent receiver panicked without running fn
C5_Witness ==
    /\ last.op = "Optional.MapOrElse"
    /\ ~last.pre.isset
    /\ last.fallback = Nil
    /\ last.fn \notin {Nil, Boom}
    /\ ret.kind = "panic"
    /\ calls = <<>>

\* every closure the last call was given is non-nil and returns
ClosuresWellBehaved ==
    /\ last.op \in PredOps => last.pred \notin {Nil, Boom}
    /\ last.op \in FnOps => last.fn \notin {Nil, Boom}
    /\ last.op \in FallbackOps => last.fallback \notin {Nil, Boom}

\* C6: Value panics exactly when the receiver is absent and otherwise returns
\* the payload; no other operation panics when its closures are non-nil and
\* return.
C6_OnlyValueFails ==
    /\ last.op = "Value" =>
           /\ (ret.kind = "panic") <=> ~last.pre.isset
           /\ ret.kind = "panic" => ret.err = "absent"
           /\ last.pre.isset => ret = RetVal(last.pre.value)
    /\ (last.op \notin {"Value", "init"} /\ ClosuresWellBehaved)
           => ret.kind # "panic"

\* Value() on an absent receiver panicked
C6_Witness ==
    /\ last.op = "Value"
    /\ ~last.pre.isset
    /\ ret.kind = "panic"
    /\ ret.err = "absent"

\* the invocations of a one-argument closure (predicate, transform) and of
\* a no-argument closure (fallback) made by the last call
UnaryCalls == SelectSeq(calls, LAMBDA c : Len(c.args) = 1)

NullaryCalls == SelectSeq(calls, LAMBDA c : Len(c.args) = 0)

\* two outcomes agree: the same panic kind, or the same value returned
SameResult(a, b) ==
    IF a.kind = "panic" \/ b.kind = "panic"
    THEN a.kind = b.kind /\ a.err = b.err
    ELSE a = b

\* what the method of the same name gives for the arguments of the last
\* free-function call
MethodOutcome ==
    IF last.op = "Map" THEN Optional_Map(last.pre, last.fn)
    ELSE IF last.op = "MapOr" THEN
        Optional_MapOr(last.pre, last.fallback, last.fn)
    ELSE Optional_MapOrElse(last.pre, last.fallback, last.fn)

\* C7: Map, MapOr and MapOrElse (methods and free functions) with a non-nil
\* transform f: absent input - f is not run and the result is None, the
\* fallback value, or fallbackFn() run once; present input v - f is run once
\* on v, fallbackFn is not run, and the result is Some(f(v)), f(v), f(v).
\* With In = Out a free function agrees with the method of the same name.
C7_MapFamily ==
    /\ (last.op \in FnOps /\ last.fn # Nil /\ ~last.pre.isset) =>
           /\ UnaryCalls = <<>>
           /\ last.op \in {"Optional.Map", "Map"}
                  => calls = <<>> /\ ret = RetOptionalOut(OutOf, None(OutOf))
           /\ last.op \in {"Optional.MapOr", "MapOr"}
                  => calls = <<>> /\ ret = RetOut(OutOf, last.fallback)
           /\ (last.op \in {"Optional.MapOrElse", "MapOrElse"}
                   /\ last.fallback # Nil)
                  => /\ calls = <<Call(last.fallback, <<>>)>>
                     /\ IF last.fallback = Boom THEN ret = CallbackPanic
                        ELSE ret = RetOut(OutOf, FallbackResult)
    /\ (last.op \in FnOps /\ last.fn # Nil /\ last.pre.isset) =>
           /\ calls = <<Call(last.fn, <<last.pre.value>>)>>
           /\ NullaryCalls = <<>>
           /\ IF last.fn = Boom THEN ret = CallbackPanic
              ELSE IF last.op \in {"Optional.Map", "Map"}
                   THEN ret = RetOptionalOut(OutOf, Some(FnResult))
                   ELSE ret = RetOut(OutOf, FnResult)
    /\ (last.op \in {"Map", "MapOr", "MapOrElse"} /\ last.out = "int") =>
           /\ SameResult(ret, MethodOutcome.ret)
           /\ calls = MethodOutcome.calls

\* the free MapOrElse with In = Out, present input, both closures given
C7_Witness ==
    /\ last.op = "MapOrElse"
    /\ last.out = "int"
    /\ last.pre.isset
    /\ last.pre.value # ZeroOf("int")
    /\ last.fn \notin {Nil, Boom}
    /\ last.fallback \notin {Nil, Boom}
    /\ calls = <<Call(last.fn, <<last.pre.value>>)>>
    /\ ret = RetVal(FnResult)

\* C8: ValueOr and ValueOrElse return the payload of a present receiver
\* whatever the fallback is, without running the fallback function; on an
\* absent receiver ValueOr returns the fallback and ValueOrElse runs the
\* fallback function once and returns its result.
C8_ValueOr ==
    /\ last.op = "ValueOr" =>
           /\ calls = <<>>
           /\ ret = RetVal(IF last.pre.isset THEN last.pre.value
                           ELSE last.fallback)
    /\ (last.op = "ValueOrElse" /\ last.pre.isset) =>
           /\ calls = <<>>
           /\ ret = RetVal(last.pre.value)
    /\ (last.op = "ValueOrElse" /\ ~last.pre.isset /\ last.fallback # Nil) =>
           /\ calls = <<Call(last.fallback, <<>>)>>
           /\ IF last.fallback = Boom THEN ret = CallbackPanic
              ELSE ret = RetVal(FallbackResult)

\* ValueOr on Some(zero) with a non-zero fallback returned the payload
C8_Witness ==
    /\ last.op = "ValueOr"
    /\ last.pre = Some(ZeroOf("int"))
    /\ last.fallback # ZeroOf("int")
    /\ ret = RetVal(ZeroOf("int"))

\* C9: Filter(p), p non-nil: absent - None and p is not run; present v - p
\* is run once on v and the result is Some(v) if p(v), None otherwise.
C9_Filter ==
    /\ (last.op = "Filter" /\ last.pred # Nil /\ ~last.pre.isset) =>
           /\ calls = <<>>
           /\ ret = RetOpt(None("int"))
    /\ (last.op = "Filter" /\ last.pred # Nil /\ last.pre.isset) =>
           /\ calls = <<Call(last.pred, <<last.pre.value>>)>>
           /\ IF last.pred = Boom THEN ret = CallbackPanic
              ELSE IF ApplyPred(last.pred, last.pre.value)
                   THEN ret = RetOpt(Some(last.pre.value))
                   ELSE ret = RetOpt(Optional(ZeroOf("int"), FALSE))

\* Filter rejected a non-zero payload
C9_Witness ==
    /\ last.op = "Filter"
    /\ last.pre.isset
    /\ last.pre.value # ZeroOf("int")
    /\ last.pred \notin {Nil, Boom}
    /\ ~ApplyPred(last.pred, last.pre.value)
    /\ ret = RetOpt(None("int"))

\* C10: Or and OrElse return a present receiver as it is, without running
\* the fallback function; on an absent receiver Or returns the alternative
\* verbatim and OrElse runs the fallback function once and returns its
\* result.
C10_OrOrElse ==
    /\ last.op = "Or" =>
           /\ calls = <<>>
           /\ ret = RetOpt(IF last.pre.isset THEN last.pre ELSE last.other)
    /\ (last.op = "OrElse" /\ last.pre.isset) =>
           /\ calls = <<>>
           /\ ret = RetOpt(last.pre)
    /\ (last.op = "OrElse" /\ ~last.pre.isset /\ last.fallback # Nil) =>
           /\ calls = <<Call(last.fallback, <<>>)>>
           /\ IF last.fallback = Boom THEN ret = CallbackPanic
              ELSE ret = RetOpt(ApplyOptFallback(last.fallback))

\* Or on a present receiver with a different, present alternative
C10_Witness ==
    /\ last.op = "Or"
    /\ last.pre.isset
    /\ last.other.isset
    /\ last.other # last.pre
    /\ ret = RetOpt(last.pre)

\* C11: with a non-nil predicate p that returns, IsSomeAnd(p) is true exactly
\* when the receiver is present and p(payload) holds, and IsNoneOr(p) exactly
\* when the receiver is absent or p(payload) holds; on an absent receiver p
\* is not run; IsSome is the negation of IsNone.
C11_Predicates ==
    /\ (last.op = "IsSomeAnd" /\ last.pred \notin {Nil, Boom}) =>
           /\ ret.kind = "bool"
           /\ ret.b <=> (last.pre.isset /\ ApplyPred(last.pred, last.pre.value))
    /\ (last.op = "IsNoneOr" /\ last.pred \notin {Nil, Boom}) =>
           /\ ret.kind = "bool"
           /\ ret.b <=> (~last.pre.isset \/ ApplyPred(last.pred, last.pre.value))
    /\ (last.op \in {"IsSomeAnd", "IsNoneOr"} /\ ~last.pre.isset) =>
           calls = <<>>
    /\ last.op = "IsSome" => ret = RetBool(last.pre.isset)
    /\ last.op = "IsNone" => ret = RetBool(~last.pre.isset)
    /\ IsSome(o).ret.b = ~IsNone(o).ret.b

\* IsNoneOr answered true on an absent receiver without running p
C11_Witness ==
    /\ last.op = "IsNoneOr"
    /\ ~last.pre.isset
    /\ last.pred \notin {Nil, Boom}
    /\ calls = <<>>
    /\ ret = RetBool(TRUE)

\* C12: FromValue(v) is absent exactly when v is the zero value and is
\* otherwise present with payload v; FromValue(zero) is what None() returns;
\* Some(zero) is present and Get on it gives (zero, true).
C12_FromValue ==
    /\ last.op = "FromValue" =>
           /\ ret.kind = "opt"
           /\ ~ret.opt.isset <=> last.value = ZeroOf("int")
           /\ ret.opt.isset => ret.opt.value = last.value
           /\ last.value = ZeroOf("int") => ret.opt = None("int")
    /\ last.op = "Some" => ret = RetOpt(Optional(last.value, TRUE))
    /\ (last.op = "Get" /\ last.pre.isset) => ret = RetPair(last.pre.value, TRUE)

\* FromValue(zero) returned an absent Optional
C12_Witness ==
    /\ last.op = "FromValue"
    /\ last.value = ZeroOf("int")
    /\ ret = RetOpt(None("int"))

\* the complete states of the variable: what it held at first and Some(x)
\* for every Swap(x) that was called
Complete ==
    {o0} \cup {Some(g[q].value) : q \in {r \in Procs : g[r].op = "Swap"}}

\* what a finished call observed, as an Optional
Observed(f) ==
    IF f.op = "Swap" THEN f.res.opt ELSE Optional(f.res.val, f.res.ok)

\* C13 as stated: every Get and Swap, overlapping a Swap or not, observes a
\* complete state of the variable; a Get never returns a non-zero payload
\* with the flag false; no two Swaps both return None.
C13_Original ==
    /\ \A p \in Procs : g[p].pc = "done" =>
           /\ Observed(g[p]) \in Complete
           /\ (g[p].op = "Get" /\ ~g[p].res.ok)
                  => g[p].res.val = ZeroOf("int")
    /\ \A p \in Procs, q \in Procs :
           (/\ p # q
            /\ g[p].pc = "done" /\ g[p].op = "Swap"
            /\ g[q].pc = "done" /\ g[q].op = "Swap")
           => ~(g[p].res = RetOpt(None("int")) /\ g[q].res = RetOpt(None("int")))

\* C13 (amended): a Get or Swap that no Swap of another goroutine overlaps
\* returns the state the variable had when the call began (so a Get never
\* returns a non-zero payload with the flag false), two such Swaps never both
\* return None, and once all calls are over and none overlapped a Swap the
\* variable holds a complete state.
C13_Serialised ==
    /\ \A p \in Procs : (g[p].pc = "done" /\ ~g[p].overlap) =>
           /\ g[p].op = "Get" =>
                  /\ g[p].res = RetPair(g[p].start.value, g[p].start.isset)
                  /\ ~g[p].res.ok => g[p].res.val = ZeroOf("int")
           /\ g[p].op = "Swap" =>
                  g[p].res = RetOpt(IF g[p].start.isset
                                    THEN Some(g[p].start.value)
                                    ELSE None("int"))
    /\ \A p \in Procs, q \in Procs :
           (/\ p # q
            /\ g[p].pc = "done" /\ g[p].op = "Swap" /\ ~g[p].overlap
            /\ g[q].pc = "done" /\ g[q].op = "Swap" /\ ~g[q].overlap)
           => ~(g[p].res = RetOpt(None("int")) /\ g[q].res = RetOpt(None("int")))
    /\ (\A p \in Procs : g[p].pc # "run" /\ ~g[p].overlap) => o \in Complete

\* two Swaps, one after the other, on a variable that was absent: the first
\* returned None and the second Some of the first one's argument
C13_Witness ==
    \E p \in Procs, q \in Procs :
        /\ p # q
        /\ ~o0.isset
        /\ g[p].pc = "done" /\ g[p].op = "Swap" /\ ~g[p].overlap
        /\ g[q].pc = "done" /\ g[q].op = "Swap" /\ ~g[q].overlap
        /\ g[p].res = RetOpt(None("int"))
        /\ g[q].res = RetOpt(Some(g[p].value))
        /\ o = Some(g[q].value)

====
